---- MODULE Spec2Model ----
(***************************************************************************)
(* Migration handling of the BotHive Plus container image.                 *)
(*                                                                         *)
(* docker-entrypoint.sh (src/run-migration.ts, lines 956-1040) waits for   *)
(* PostgreSQL, then walks /app/migrations/*.sql in glob order, hands every *)
(* file that /app/data/.migration_status does not list as applied to psql  *)
(* and records it.  runUnreadMessageMigration (lines 11-106) is the one-off*)
(* node runner of 003-add-unread-message-tracking.sql.                     *)
(***************************************************************************)
EXTENDS Integers, Sequences, FiniteSets, TLC

VARIABLES
    dirExists,    \* /app/migrations is a directory
    dir,          \* the names of the *.sql files in /app/migrations
    bad,          \* the files whose body holds a statement the server rejects
    fileExists,   \* /app/data/.migration_status exists
    statusFile,   \* the lines of /app/data/.migration_status
    db,           \* per migration, what the database holds of its changes
    dbUp,         \* the PostgreSQL server accepts connections
    runs,         \* entrypoint starts so far; date(1) advances with each start
    pc,           \* per entrypoint process, its position in the script
    list,         \* per process, the expansion of "$MIGRATIONS_DIR"/*.sql
    idx,          \* per process, the position of the for loop in list
    timestamp,    \* per process, mark_migration_applied's local timestamp
    psqlResult,   \* per process, the outcome of its last psql invocation
    runLog,       \* per process, the files handed to psql in this run
    skipped,      \* per process, the "Migration already applied" lines of this run
    startFile,    \* per process, the status file as it was when the run started
    ready,        \* per process, a pg_isready probe has succeeded in this run
    failedProbes, \* per process, the failed probes of the wait loop of this run
    execCount,    \* per migration, psql runs that went through the whole file
    rpc,          \* position of runUnreadMessageMigration
    tx,           \* the runner's transaction: "none", "open", "dirty", "aborted", "lost"
    rSawRecord,   \* the status file listed the runner's migration when it ran the body
    rCommitted,   \* the runner's COMMIT went through
    deploy        \* the deployment script: its command, position and surroundings

waitVars == <<ready, failedProbes>>
entryVars == <<pc, list, idx, timestamp, psqlResult, runLog, skipped, startFile, waitVars>>
envVars == <<dirExists, dir, bad, dbUp>>
fileVars == <<fileExists, statusFile>>
runnerVars == <<rpc, tx, rSawRecord, rCommitted>>
vars == <<dirExists, dir, bad, fileExists, statusFile, db, dbUp, runs, pc,
          list, idx, timestamp, psqlResult, runLog, skipped, startFile,
          ready, failedProbes, execCount, rpc, tx, rSawRecord, rCommitted, deploy>>

(***************************************************************************)
(* Bounds of the model.                                                    *)
(***************************************************************************)
MaxRuns == 2       \* entrypoint starts
MaxProbes == 2     \* failed probes counted per run (the count saturates)

\* local max_attempts=3 of install_dependencies
max_attempts == 3

(***************************************************************************)
(* File names and text.                                                    *)
(***************************************************************************)
UnreadMigration == "003-add-unread-message-tracking.sql"

FileNames == {UnreadMigration, "1-1.sql", "1.1.sql", "2.sql"}

\* The unexpanded pattern, which the shell leaves as is when nothing matches.
GlobPattern == "*.sql"

\* The characters of each file name.
Chars ==
    [n \in FileNames \cup {GlobPattern} |->
        CASE n = "003-add-unread-message-tracking.sql" ->
                 <<"0","0","3","-","a","d","d","-","u","n","r","e","a","d","-",
                   "m","e","s","s","a","g","e","-","t","r","a","c","k","i","n","g",
                   ".","s","q","l">>
          [] n = "1-1.sql" -> <<"1","-","1",".","s","q","l">>
          [] n = "1.1.sql" -> <<"1",".","1",".","s","q","l">>
          [] n = "2.sql" -> <<"2",".","s","q","l">>
          [] n = "*.sql" -> <<"*",".","s","q","l">>]

\* Byte values of the characters of file names (POSIX locale collation).
Code ==
    [c \in {"-", ".", "0", "1", "2", "3", "a", "c", "d", "e", "g", "i", "k", "l",
            "m", "n", "q", "r", "s", "t", "u"} |->
        CASE c = "-" -> 45 [] c = "." -> 46 [] c = "0" -> 48 [] c = "1" -> 49
          [] c = "2" -> 50 [] c = "3" -> 51 [] c = "a" -> 97 [] c = "c" -> 99
          [] c = "d" -> 100 [] c = "e" -> 101 [] c = "g" -> 103 [] c = "i" -> 105
          [] c = "k" -> 107 [] c = "l" -> 108 [] c = "m" -> 109 [] c = "n" -> 110
          [] c = "q" -> 113 [] c = "r" -> 114 [] c = "s" -> 115 [] c = "t" -> 116
          [] c = "u" -> 117]

Procs == {"e1", "e2"}

HeaderLine == [kind |-> "header"]
RecordLine(n, t) == [kind |-> "record", name |-> n, ts |-> t]

\* "# Migration Status - Auto-generated"
HeaderText ==
    <<"#"," ","M","i","g","r","a","t","i","o","n"," ","S","t","a","t","u","s"," ",
      "-"," ","A","u","t","o","-","g","e","n","e","r","a","t","e","d">>

AppliedText == <<":","a","p","p","l","i","e","d",":">>

\* The text of a line of the status file: "<name>:applied:<timestamp>".
LineText(l) ==
    IF l.kind = "header" THEN HeaderText
    ELSE Chars[l.name] \o AppliedText \o <<ToString(l.ts)>>

\* Lexicographic byte order of two names.
Less(a, b) ==
    \E i \in 1..(Len(a) + 1) :
        /\ i <= Len(b)
        /\ \A j \in 1..(i - 1) : a[j] = b[j]
        /\ \/ i = Len(a) + 1
           \/ i <= Len(a) /\ Code[a[i]] < Code[b[i]]

RECURSIVE SortNames(_)
SortNames(S) ==
    IF S = {} THEN <<>>
    ELSE LET m == CHOOSE x \in S : \A y \in S : x = y \/ Less(Chars[x], Chars[y])
         IN <<m>> \o SortNames(S \ {m})

\* A glob expansion that is not sorted ascending (here: descending).
RECURSIVE SortNamesDesc(_)
SortNamesDesc(S) ==
    IF S = {} THEN <<>>
    ELSE LET m == CHOOSE x \in S : \A y \in S : x = y \/ Less(Chars[y], Chars[x])
         IN <<m>> \o SortNamesDesc(S \ {m})

GlobUnsorted(d) == IF d = {} THEN <<GlobPattern>> ELSE SortNamesDesc(d)

\* for migration_file in "$MIGRATIONS_DIR"/*.sql: sorted matches, or the
\* pattern itself when no file matches.
Glob(d) == IF d = {} THEN <<GlobPattern>> ELSE SortNames(d)

\* A loop body that does not test its entry.
IsFileAlways(e) == TRUE

\* [ -f "$migration_file" ]
IsFile(e) == dirExists /\ e \in dir

\* A basic regular expression made of a file name, anchored at the start of
\* the line: "." matches any character, every other character itself.
PrefixMatch(pat, text) ==
    /\ Len(text) >= Len(pat)
    /\ \A i \in 1..Len(pat) : pat[i] = "." \/ pat[i] = text[i]

\* A grep that reads the first line of the file only.
GrepHeaderOnly(pat, file) == file # <<>> /\ PrefixMatch(pat, LineText(file[1]))

\* grep -q "^<pat>" "$MIGRATION_STATUS_FILE"
GrepQ(pat, file) == \E i \in 1..Len(file) : PrefixMatch(pat, LineText(file[i]))

\* A lookup whose pattern is anchored at the end of the line too, where the
\* timestamp follows.
is_migration_applied_whole_line(n) ==
    /\ fileExists
    /\ \E i \in 1..Len(statusFile) : LineText(statusFile[i]) = Chars[n] \o AppliedText

\* Lines 976-983.
is_migration_applied(n) ==
    IF fileExists THEN GrepQ(Chars[n] \o AppliedText, statusFile)
    ELSE FALSE

\* sed -i "s/^<n>:.*/<n>:applied:<t>/"
SedReplace(n, t, file) ==
    [i \in 1..Len(file) |->
        IF PrefixMatch(Chars[n] \o <<":">>, LineText(file[i]))
        THEN RecordLine(n, t) ELSE file[i]]

\* Lines 996-1001: update the matching lines, or append a new one.
WriteStatus(n, t, file) ==
    IF GrepQ(Chars[n] \o <<":">>, file) THEN SedReplace(n, t, file)
    ELSE Append(file, RecordLine(n, t))

\* The status file holds a record of exactly this name.
HasRecord(n, file) ==
    \E i \in 1..Len(file) : file[i].kind = "record" /\ file[i].name = n

\* What psql -f does with a file: without ON_ERROR_STOP a rejected statement
\* is reported and the rest of the file runs, exit status 0; a lost
\* connection or an unreadable file ends it with a non-zero status.
PsqlOutcome(n) ==
    IF ~dbUp \/ ~IsFile(n) THEN "fatal" ELSE IF n \in bad THEN "sqlerr" ELSE "ok"

PsqlExit(outcome) == IF outcome = "fatal" THEN 2 ELSE 0

DbAfter(n, outcome) ==
    CASE outcome = "ok" -> [db EXCEPT ![n] = "full"]
      [] outcome = "sqlerr" -> [db EXCEPT ![n] = IF @ = "full" THEN "full" ELSE "partial"]
      [] OTHER -> db

\* The entries "$INSTANCES_DIR"/* can hold, in glob order.
InstanceNames == <<"alpha", "beta">>

\* What the operator has ready on standard input for read -r confirm.
Answers == {"DELETE ALL", "delete all", ""}

\* The deployment script is not running.  dirExists: $INSTANCES_DIR is a
\* directory; entries: what each name in it is; stdin: the operator's line;
\* confirm: the script's variable, "unset" before read; downed: instances
\* docker-compose down has run for; removed: instances whose volumes, images
\* and directory are gone; npmLog: the outcome of every npm install so far.
DeployIdle ==
    [cmd |-> "none", pc |-> "idle", dirExists |-> FALSE,
     entries |-> [i \in 1..Len(InstanceNames) |-> "absent"],
     start |-> [i \in 1..Len(InstanceNames) |-> "absent"],
     stdin |-> "", confirm |-> "unset", idx |-> 1, downed |-> {},
     removed |-> {}, packageJson |-> FALSE, attempt |-> 0, npmLog |-> <<>>]

\* Nothing has run yet: a fresh data volume, an empty database.
Fresh ==
    /\ fileExists = FALSE
    /\ statusFile = <<>>
    /\ db = [n \in FileNames |-> "none"]
    /\ runs = 0
    /\ pc = [p \in Procs |-> "stopped"]
    /\ list = [p \in Procs |-> <<>>]
    /\ idx = [p \in Procs |-> 1]
    /\ timestamp = [p \in Procs |-> 0]
    /\ psqlResult = [p \in Procs |-> "none"]
    /\ runLog = [p \in Procs |-> <<>>]
    /\ skipped = [p \in Procs |-> <<>>]
    /\ startFile = [p \in Procs |-> <<>>]
    /\ ready = [p \in Procs |-> FALSE]
    /\ failedProbes = [p \in Procs |-> 0]
    /\ execCount = [n \in FileNames |-> 0]
    /\ rpc = "idle"
    /\ tx = "none"
    /\ rSawRecord = FALSE
    /\ rCommitted = FALSE

\* The image and its surroundings: any set of migration files, any of them
\* broken, the server up or down.
Init ==
    /\ dirExists \in BOOLEAN
    /\ dir \in IF dirExists THEN SUBSET FileNames ELSE {{}}
    /\ bad \in SUBSET dir
    /\ dbUp \in BOOLEAN
    /\ Fresh
    /\ deploy = DeployIdle


(***************************************************************************)
(* docker-entrypoint.sh, one process p.                                    *)
(***************************************************************************)
Running(p) == pc[p] \in {"wait", "sleep", "dircheck", "loop", "psql", "mark", "write"}

\* The container starts: the script runs from its first line.
Start(p) ==
    /\ pc[p] \in {"stopped", "exit1", "exec"}
    /\ rpc \in {"idle", "exit0", "exit1"}
    /\ runs < MaxRuns
    /\ runs' = runs + 1
    /\ pc' = [pc EXCEPT ![p] = "wait"]
    /\ list' = [list EXCEPT ![p] = <<>>]
    /\ idx' = [idx EXCEPT ![p] = 1]
    /\ psqlResult' = [psqlResult EXCEPT ![p] = "none"]
    /\ runLog' = [runLog EXCEPT ![p] = <<>>]
    /\ skipped' = [skipped EXCEPT ![p] = <<>>]
    /\ startFile' = [startFile EXCEPT ![p] = statusFile]
    /\ ready' = [ready EXCEPT ![p] = FALSE]
    /\ failedProbes' = [failedProbes EXCEPT ![p] = 0]
    /\ UNCHANGED <<envVars, runnerVars, fileVars, db, timestamp, execCount,
                   deploy>>

\* A wait loop with a retry budget: it gives up at the second failed probe.
ProbeWithBudget(p) ==
    /\ pc[p] = "wait"
    /\ pc' = [pc EXCEPT ![p] = IF dbUp THEN "dircheck"
                               ELSE IF failedProbes[p] >= 1 THEN "exit1" ELSE "sleep"]
    /\ ready' = [ready EXCEPT ![p] = dbUp]
    /\ failedProbes' =
           [failedProbes EXCEPT ![p] =
               IF dbUp THEN @ ELSE IF @ < MaxProbes THEN @ + 1 ELSE @]
    /\ UNCHANGED <<envVars, runnerVars, fileVars, db, runs, list, idx,
                   timestamp, psqlResult, runLog, skipped, startFile,
                   execCount, deploy>>

\* A script that goes on after the first probe, whatever it said.
ProbeOnce(p) ==
    /\ pc[p] = "wait"
    /\ pc' = [pc EXCEPT ![p] = "dircheck"]
    /\ ready' = [ready EXCEPT ![p] = dbUp]
    /\ failedProbes' = [failedProbes EXCEPT ![p] = IF dbUp THEN @ ELSE 1]
    /\ UNCHANGED <<envVars, runnerVars, fileVars, db, runs, list, idx,
                   timestamp, psqlResult, runLog, skipped, startFile,
                   execCount, deploy>>

\* until pg_isready ...; do sleep 2; done
Probe(p) ==
    /\ pc[p] = "wait"
    /\ pc' = [pc EXCEPT ![p] = IF dbUp THEN "dircheck" ELSE "sleep"]
    /\ ready' = [ready EXCEPT ![p] = dbUp]
    /\ failedProbes' =
           [failedProbes EXCEPT ![p] =
               IF dbUp THEN @ ELSE IF @ < MaxProbes THEN @ + 1 ELSE @]
    /\ UNCHANGED <<envVars, runnerVars, fileVars, db, runs, list, idx,
                   timestamp, psqlResult, runLog, skipped, startFile,
                   execCount, deploy>>

Wake(p) ==
    /\ pc[p] = "sleep"
    /\ pc' = [pc EXCEPT ![p] = "wait"]
    /\ UNCHANGED <<envVars, runnerVars, fileVars, db, runs, list, idx,
                   timestamp, psqlResult, runLog, skipped, startFile,
                   execCount, waitVars, deploy>>

\* A script for which a missing migrations directory is an error.
DirCheckFatal(p) ==
    /\ pc[p] = "dircheck"
    /\ IF ~dirExists
       THEN /\ pc' = [pc EXCEPT ![p] = "exit1"]
            /\ UNCHANGED list
       ELSE /\ pc' = [pc EXCEPT ![p] = "loop"]
            /\ list' = [list EXCEPT ![p] = Glob(dir)]
    /\ failedProbes' = [failedProbes EXCEPT ![p] = 0]
    /\ UNCHANGED <<envVars, runnerVars, fileVars, db, runs, idx, timestamp,
                   psqlResult, runLog, skipped, startFile, execCount, ready,
                   deploy>>

\* if [ -d "$MIGRATIONS_DIR" ]; then for migration_file in ...; else ... fi
DirCheck(p) ==
    /\ pc[p] = "dircheck"
    /\ IF ~dirExists
       THEN /\ pc' = [pc EXCEPT ![p] = "exec"]
            /\ UNCHANGED list
       ELSE /\ pc' = [pc EXCEPT ![p] = "loop"]
            /\ list' = [list EXCEPT ![p] = Glob(dir)]
    /\ failedProbes' = [failedProbes EXCEPT ![p] = 0]
    /\ UNCHANGED <<envVars, runnerVars, fileVars, db, runs, idx, timestamp,
                   psqlResult, runLog, skipped, startFile, execCount, ready,
                   deploy>>

\* The loop is over: "All migrations processed!", then the application starts.
LoopDone(p) ==
    /\ pc[p] = "loop"
    /\ idx[p] > Len(list[p])
    /\ pc' = [pc EXCEPT ![p] = "exec"]
    /\ UNCHANGED <<envVars, runnerVars, fileVars, db, runs, list, idx,
                   timestamp, psqlResult, runLog, skipped, startFile,
                   execCount, waitVars, deploy>>

\* if [ -f "$migration_file" ] fails: next iteration.
SkipNonFile(p) ==
    /\ pc[p] = "loop"
    /\ idx[p] <= Len(list[p])
    /\ ~IsFile(list[p][idx[p]])
    /\ idx' = [idx EXCEPT ![p] = @ + 1]
    /\ UNCHANGED <<envVars, runnerVars, fileVars, db, runs, pc, list,
                   timestamp, psqlResult, runLog, skipped, startFile,
                   execCount, waitVars, deploy>>

\* is_migration_applied succeeds: "Migration already applied".
SkipApplied(p) ==
    /\ pc[p] = "loop"
    /\ idx[p] <= Len(list[p])
    /\ IsFile(list[p][idx[p]])
    /\ is_migration_applied(list[p][idx[p]])
    /\ skipped' = [skipped EXCEPT ![p] = Append(@, list[p][idx[p]])]
    /\ idx' = [idx EXCEPT ![p] = @ + 1]
    /\ UNCHANGED <<envVars, runnerVars, fileVars, db, runs, pc, list,
                   timestamp, psqlResult, runLog, startFile, execCount,
                   waitVars, deploy>>

\* A pass that takes a lock: no file is begun while another process is
\* between its check and its write.
BeginApplyLocked(p) ==
    /\ pc[p] = "loop"
    /\ idx[p] <= Len(list[p])
    /\ IsFile(list[p][idx[p]])
    /\ ~is_migration_applied(list[p][idx[p]])
    /\ \A q \in Procs \ {p} : pc[q] \notin {"psql", "mark", "write"}
    /\ pc' = [pc EXCEPT ![p] = "psql"]
    /\ UNCHANGED <<envVars, runnerVars, fileVars, db, runs, list, idx,
                   timestamp, psqlResult, runLog, skipped, startFile,
                   execCount, waitVars, deploy>>

\* is_migration_applied fails: "Applying migration".
BeginApply(p) ==
    /\ pc[p] = "loop"
    /\ idx[p] <= Len(list[p])
    /\ IsFile(list[p][idx[p]])
    /\ ~is_migration_applied(list[p][idx[p]])
    /\ pc' = [pc EXCEPT ![p] = "psql"]
    /\ UNCHANGED <<envVars, runnerVars, fileVars, db, runs, list, idx,
                   timestamp, psqlResult, runLog, skipped, startFile,
                   execCount, waitVars, deploy>>

\* if psql ... -f "$migration_file"; then mark ... else ... exit 1; fi
Psql(p) ==
    /\ pc[p] = "psql"
    /\ LET n == list[p][idx[p]]
           outcome == PsqlOutcome(n)
       IN /\ db' = DbAfter(n, outcome)
          /\ psqlResult' = [psqlResult EXCEPT ![p] = outcome]
          /\ runLog' = [runLog EXCEPT ![p] = Append(@, n)]
          /\ execCount' = IF outcome = "fatal" THEN execCount
                           ELSE [execCount EXCEPT ![n] = @ + 1]
          /\ pc' = [pc EXCEPT ![p] = IF PsqlExit(outcome) = 0 THEN "mark" ELSE "exit1"]
    /\ UNCHANGED <<envVars, runnerVars, fileVars, runs, list, idx, timestamp,
                   skipped, startFile, waitVars, deploy>>

\* mark_migration_applied, lines 987-994: read the clock, create the file.
MarkCreate(p) ==
    /\ pc[p] = "mark"
    /\ timestamp' = [timestamp EXCEPT ![p] = runs]
    /\ fileExists' = TRUE
    /\ statusFile' = IF fileExists THEN statusFile ELSE <<HeaderLine>>
    /\ pc' = [pc EXCEPT ![p] = "write"]
    /\ UNCHANGED <<envVars, runnerVars, db, runs, list, idx, psqlResult,
                   runLog, skipped, startFile, execCount, waitVars, deploy>>

\* mark_migration_applied, lines 996-1003, and the next iteration.
MarkWrite(p) ==
    /\ pc[p] = "write"
    /\ statusFile' =
           WriteStatus(list[p][idx[p]], timestamp[p], statusFile)
    /\ fileExists' = TRUE
    /\ idx' = [idx EXCEPT ![p] = @ + 1]
    /\ pc' = [pc EXCEPT ![p] = "loop"]
    /\ UNCHANGED <<envVars, runnerVars, db, runs, list, timestamp, psqlResult,
                   runLog, skipped, startFile, execCount, waitVars, deploy>>

\* The container is stopped from outside while the script runs.
Kill(p) ==
    /\ Running(p)
    /\ pc' = [pc EXCEPT ![p] = "stopped"]
    /\ list' = [list EXCEPT ![p] = <<>>]
    /\ idx' = [idx EXCEPT ![p] = 1]
    /\ timestamp' = [timestamp EXCEPT ![p] = 0]
    /\ psqlResult' = [psqlResult EXCEPT ![p] = "none"]
    /\ runLog' = [runLog EXCEPT ![p] = <<>>]
    /\ skipped' = [skipped EXCEPT ![p] = <<>>]
    /\ startFile' = [startFile EXCEPT ![p] = <<>>]
    /\ ready' = [ready EXCEPT ![p] = FALSE]
    /\ failedProbes' = [failedProbes EXCEPT ![p] = 0]
    /\ UNCHANGED <<envVars, runnerVars, fileVars, db, runs, execCount, deploy>>

Entrypoint(p) ==
    \/ Start(p) \/ Probe(p) \/ Wake(p) \/ DirCheck(p) \/ LoopDone(p)
    \/ SkipNonFile(p) \/ SkipApplied(p) \/ BeginApply(p) \/ Psql(p)
    \/ MarkCreate(p) \/ MarkWrite(p) \/ Kill(p)

(***************************************************************************)
(* The environment: the server, the clock, the operator.                   *)
(***************************************************************************)
Quiet == (\A p \in Procs : ~Running(p)) /\ rpc \in {"idle", "exit0", "exit1"}

ServerToggle ==
    /\ dbUp' = ~dbUp
    /\ tx' = IF dbUp /\ rpc \in {"connected", "read", "begun", "queried", "verify",
                                  "done", "catch"}
             THEN "lost" ELSE tx
    /\ UNCHANGED <<dirExists, dir, bad, fileVars, db, runs, entryVars,
                   execCount, rpc, rSawRecord, rCommitted, deploy>>

\* The containers are removed: nothing of a process outlives it.
Replaced ==
    /\ pc' = [p \in Procs |-> "stopped"]
    /\ list' = [p \in Procs |-> <<>>]
    /\ idx' = [p \in Procs |-> 1]
    /\ timestamp' = [p \in Procs |-> 0]
    /\ psqlResult' = [p \in Procs |-> "none"]
    /\ runLog' = [p \in Procs |-> <<>>]
    /\ skipped' = [p \in Procs |-> <<>>]
    /\ startFile' = [p \in Procs |-> <<>>]
    /\ ready' = [p \in Procs |-> FALSE]
    /\ failedProbes' = [p \in Procs |-> 0]


\* A new image: one more migration file, the containers are replaced.
Deploy(n, broken) ==
    /\ Quiet
    /\ dirExists
    /\ n \notin dir
    /\ dir' = dir \cup {n}
    /\ bad' = IF broken THEN bad \cup {n} ELSE bad
    /\ Replaced
    /\ UNCHANGED <<dirExists, dbUp, fileVars, db, runs, execCount, runnerVars, deploy>>

\* The operator repairs the body of a migration file.
FixMigration(n) ==
    /\ Quiet
    /\ n \in bad
    /\ bad' = bad \ {n}
    /\ Replaced
    /\ UNCHANGED <<dirExists, dir, dbUp, fileVars, db, runs, execCount,
                   runnerVars, deploy>>

Environment ==
    \/ ServerToggle
    \/ \E n \in FileNames, broken \in BOOLEAN : Deploy(n, broken)
    \/ \E n \in FileNames : FixMigration(n)

(***************************************************************************)
(* runUnreadMessageMigration.                                              *)
(***************************************************************************)
\* The client's connection is alive: its queries reach the server.
Connected == dbUp /\ tx # "lost"

\* pool.connect(); a rejection reaches the .catch of the main guard.
RunnerStart ==
    /\ rpc = "idle"
    /\ \A p \in Procs : ~Running(p)
    /\ rpc' = IF dbUp THEN "connected" ELSE "exit1"
    /\ UNCHANGED <<envVars, fileVars, db, runs, entryVars, execCount, tx,
                   rSawRecord, rCommitted, deploy>>

\* fs.existsSync(migrationPath), else process.exit(1); fs.readFileSync
RunnerCheckFile ==
    /\ rpc = "connected"
    /\ rpc' = IF dirExists /\ UnreadMigration \in dir THEN "read" ELSE "exit1"
    /\ UNCHANGED <<envVars, fileVars, db, runs, entryVars, execCount, tx,
                   rSawRecord, rCommitted, deploy>>

\* client.query('BEGIN')
RunnerBegin ==
    /\ rpc = "read"
    /\ IF Connected THEN rpc' = "begun" /\ tx' = "open"
                    ELSE rpc' = "catch" /\ tx' = tx
    /\ UNCHANGED <<envVars, fileVars, db, runs, entryVars, execCount,
                   rSawRecord, rCommitted, deploy>>

\* client.query(migrationSQL)
RunnerQuery ==
    /\ rpc = "begun"
    /\ rSawRecord' = HasRecord(UnreadMigration, statusFile)
    /\ IF ~Connected THEN rpc' = "catch" /\ tx' = tx
       ELSE IF UnreadMigration \in bad THEN rpc' = "catch" /\ tx' = "aborted"
       ELSE rpc' = "queried" /\ tx' = "dirty"
    /\ UNCHANGED <<envVars, fileVars, db, runs, entryVars, execCount,
                   rCommitted, deploy>>

\* client.query('COMMIT')
RunnerCommit ==
    /\ rpc = "queried"
    /\ IF Connected
       THEN /\ rpc' = "verify"
            /\ tx' = "none"
            /\ db' = [db EXCEPT ![UnreadMigration] = "full"]
            /\ rCommitted' = TRUE
       ELSE /\ rpc' = "catch"
            /\ UNCHANGED <<tx, db, rCommitted>>
    /\ UNCHANGED <<envVars, fileVars, runs, entryVars, execCount, rSawRecord,
                   deploy>>

\* The four catalogue queries after the commit.
RunnerVerify ==
    /\ rpc = "verify"
    /\ rpc' = IF Connected THEN "done" ELSE "catch"
    /\ UNCHANGED <<envVars, fileVars, db, runs, entryVars, execCount, tx,
                   rSawRecord, rCommitted, deploy>>

\* catch: client.query('ROLLBACK'); process.exit(1)
RunnerCatch ==
    /\ rpc = "catch"
    /\ tx' = IF Connected THEN "none" ELSE tx
    /\ rpc' = "exit1"
    /\ UNCHANGED <<envVars, fileVars, db, runs, entryVars, execCount,
                   rSawRecord, rCommitted, deploy>>

\* finally: client.release(); then: process.exit(0)
RunnerExit0 ==
    /\ rpc = "done"
    /\ rpc' = "exit0"
    /\ UNCHANGED <<envVars, fileVars, db, runs, entryVars, execCount, tx,
                   rSawRecord, rCommitted, deploy>>

Runner ==
    \/ RunnerStart \/ RunnerCheckFile \/ RunnerBegin \/ RunnerQuery
    \/ RunnerCommit \/ RunnerVerify \/ RunnerCatch \/ RunnerExit0

(***************************************************************************)
(* Specifications.                                                         *)
(***************************************************************************)
\* One entrypoint process at a time, as the deployment assumes.
Next == Entrypoint("e1") \/ Environment

Spec == Init /\ [][Next]_vars

\* The entrypoint and the one-off runner against the same database.
NextRunner == Entrypoint("e1") \/ Environment \/ Runner

SpecRunner == Init /\ [][NextRunner]_vars

\* Two containers of the image started against the same database and the
\* same data volume, every migration file sound.
InitConc ==
    /\ dirExists = TRUE
    /\ dir \in SUBSET {"1-1.sql", "2.sql"}
    /\ bad = {}
    /\ dbUp \in BOOLEAN
    /\ Fresh
    /\ deploy = DeployIdle

NextConc == Entrypoint("e1") \/ Entrypoint("e2") \/ ServerToggle

SpecConc == InitConc /\ [][NextConc]_vars

(***************************************************************************)
(* The deployment script (lines 121-954): stop, clean, and the dependency  *)
(* installation of a deployment.                                           *)
(***************************************************************************)
notDeploy == <<dirExists, dir, bad, fileExists, statusFile, db, dbUp, runs, pc,
               list, idx, timestamp, psqlResult, runLog, skipped, startFile,
               ready, failedProbes, execCount, rpc, tx, rSawRecord, rCommitted>>

InstanceDirs(d) == {i \in 1..Len(InstanceNames) : d.entries[i] = "dir"}

\* [ ! -d "$INSTANCES_DIR" ] || [ -z "$(ls -A "$INSTANCES_DIR")" ]
NoInstances(d) == ~d.dirExists \/ \A i \in 1..Len(InstanceNames) : d.entries[i] = "absent"

\* The expansion of "$INSTANCES_DIR"/* of a directory that is not empty.
InstanceGlob(d) ==
    SelectSeq([i \in 1..Len(InstanceNames) |-> i], LAMBDA i : d.entries[i] # "absent")

\* The builtin local succeeds only while a function executes.
LocalStatus(inFunction) == IF inFunction THEN 0 ELSE 1

\* The operator invokes the script: with stop, with clean, or with no
\* argument (main, followed here up to install_dependencies).
Invoke(c) ==
    /\ deploy.pc = "idle"
    /\ deploy' = [deploy EXCEPT !.cmd = c,
                                !.pc = IF c = "deploy" THEN "install" ELSE "check"]
    /\ UNCHANGED notDeploy

\* stop and clean: "No instances found." and exit 0, or the first loop.
CheckInstances ==
    /\ deploy.pc = "check"
    /\ deploy' = [deploy EXCEPT
           !.pc = IF NoInstances(deploy) THEN "exit0"
                  ELSE IF deploy.cmd = "stop" THEN "stopping" ELSE "listing",
           !.idx = 1]
    /\ UNCHANGED notDeploy

\* One iteration of the loop of stop, lines 898-904, under set -e.
StopIteration ==
    /\ deploy.pc = "stopping"
    /\ LET g == InstanceGlob(deploy)
       IN deploy' =
           IF deploy.idx > Len(g) THEN [deploy EXCEPT !.pc = "exit0"]
           ELSE IF deploy.entries[g[deploy.idx]] # "dir"
                THEN [deploy EXCEPT !.idx = @ + 1]
           ELSE IF LocalStatus(FALSE) # 0 THEN [deploy EXCEPT !.pc = "exit1"]
           ELSE [deploy EXCEPT !.downed = @ \cup {g[deploy.idx]}, !.idx = @ + 1]
    /\ UNCHANGED notDeploy

\* One iteration of the listing loop of clean, lines 918-923, under set -e.
ListIteration ==
    /\ deploy.pc = "listing"
    /\ LET g == InstanceGlob(deploy)
       IN deploy' =
           IF deploy.idx > Len(g) THEN [deploy EXCEPT !.pc = "prompt"]
           ELSE IF deploy.entries[g[deploy.idx]] # "dir"
                THEN [deploy EXCEPT !.idx = @ + 1]
           ELSE IF LocalStatus(FALSE) # 0 THEN [deploy EXCEPT !.pc = "exit1"]
           ELSE [deploy EXCEPT !.idx = @ + 1]
    /\ UNCHANGED notDeploy

\* read -r confirm; anything but DELETE ALL: "Cleanup cancelled.", exit 0.
Confirm ==
    /\ deploy.pc = "prompt"
    /\ deploy' = [deploy EXCEPT
           !.confirm = deploy.stdin,
           !.pc = IF deploy.stdin = "DELETE ALL" THEN "removing" ELSE "exit0",
           !.idx = 1]
    /\ UNCHANGED notDeploy

\* One iteration of the removal loop of clean, lines 932-939; after the
\* loop, rmdir of the emptied directory and exit 0.
RemoveIteration ==
    /\ deploy.pc = "removing"
    /\ LET g == InstanceGlob(deploy)
       IN deploy' =
           IF deploy.idx > Len(g)
           THEN [deploy EXCEPT !.pc = "exit0",
                               !.dirExists = @ /\ ~NoInstances(deploy)]
           ELSE IF deploy.entries[g[deploy.idx]] # "dir"
                THEN [deploy EXCEPT !.idx = @ + 1]
           ELSE IF LocalStatus(FALSE) # 0 THEN [deploy EXCEPT !.pc = "exit1"]
           ELSE [deploy EXCEPT !.removed = @ \cup {g[deploy.idx]},
                               !.entries[g[deploy.idx]] = "absent"]
    /\ UNCHANGED notDeploy

\* install_dependencies, lines 321-327: package.json, then the counters.
InstallBegin ==
    /\ deploy.pc = "install"
    /\ deploy' = IF ~deploy.packageJson \/ LocalStatus(TRUE) # 0
                 THEN [deploy EXCEPT !.pc = "exit1"]
                 ELSE [deploy EXCEPT !.pc = "while", !.attempt = 1]
    /\ UNCHANGED notDeploy

\* A loop that never gives up inside its body: after a failure it only
\* counts, and falls out of the while at the end.
install_dependencies_counting(ok) ==
    /\ deploy.pc = "while"
    /\ deploy' =
           IF deploy.attempt > max_attempts THEN [deploy EXCEPT !.pc = "returned"]
           ELSE IF ok THEN [deploy EXCEPT !.npmLog = Append(@, TRUE),
                                          !.pc = "returned"]
           ELSE [deploy EXCEPT !.npmLog = Append(@, FALSE), !.attempt = @ + 1]
    /\ UNCHANGED notDeploy

\* One pass of the while loop of install_dependencies, lines 329-351; ok is
\* the outcome of npm install.  Past the loop the function returns.
install_dependencies(ok) ==
    /\ deploy.pc = "while"
    /\ deploy' =
           IF deploy.attempt > max_attempts THEN [deploy EXCEPT !.pc = "returned"]
           ELSE IF ok THEN [deploy EXCEPT !.npmLog = Append(@, TRUE),
                                          !.pc = "returned"]
           ELSE IF deploy.attempt = max_attempts
                THEN [deploy EXCEPT !.npmLog = Append(@, FALSE), !.pc = "exit1"]
           ELSE [deploy EXCEPT !.npmLog = Append(@, FALSE), !.attempt = @ + 1]
    /\ UNCHANGED notDeploy

\* The script on a host: any content of the instances directory, any line
\* on standard input, package.json there or not; no container runs.
InitDeploy ==
    /\ dirExists = TRUE /\ dir = {} /\ bad = {} /\ dbUp = FALSE
    /\ Fresh
    /\ \E e \in [1..Len(InstanceNames) -> {"absent", "dir", "file"}],
          de \in BOOLEAN, a \in Answers, pj \in BOOLEAN :
          /\ (~de) => \A i \in 1..Len(InstanceNames) : e[i] = "absent"
          /\ deploy = [DeployIdle EXCEPT !.dirExists = de, !.entries = e,
                                         !.start = e, !.stdin = a,
                                         !.packageJson = pj]

NextDeploy ==
    \/ \E c \in {"stop", "clean", "deploy"} : Invoke(c)
    \/ CheckInstances
    \/ StopIteration
    \/ ListIteration
    \/ Confirm
    \/ RemoveIteration
    \/ InstallBegin
    \/ \E ok \in BOOLEAN : install_dependencies(ok)

\* The shell goes on to its next command and npm install comes back.
SpecDeploy == InitDeploy /\ [][NextDeploy]_vars /\ WF_vars(NextDeploy)

(***************************************************************************)
(* Properties.                                                             *)
(***************************************************************************)
InRun(p) == pc[p] # "stopped"

AllRecorded(file) == \A n \in dir : HasRecord(n, file)

RecordsOf(n, file) == SelectSeq(file, LAMBDA l : l.kind = "record" /\ l.name = n)

RecordLines(file) == SelectSeq(file, LAMBDA l : l.kind = "record")

\* The psql run of n in this run of p did not succeed.
FailedInRun(p, n) ==
    /\ \E i \in 1..Len(runLog[p]) : runLog[p][i] = n
    /\ \/ n \in bad
       \/ psqlResult[p] = "fatal" /\ runLog[p][Len(runLog[p])] = n

\* C1: a run that starts with every migration file of the directory recorded
\* as applied hands no file to psql, leaves the status file as it was, does
\* not exit with an error, and reaches the start of the application having
\* reported every file as already applied.
C1_Idempotent ==
    \A p \in Procs :
        (InRun(p) /\ dirExists /\ AllRecorded(startFile[p])) =>
            /\ runLog[p] = <<>>
            /\ statusFile = startFile[p]
            /\ fileExists = (startFile[p] # <<>>)
            /\ pc[p] \notin {"psql", "mark", "write", "exit1"}
            /\ pc[p] = "exec" => Len(skipped[p]) = Cardinality(dir)

C1_Witness ==
    \E p \in Procs :
        /\ pc[p] = "exec"
        /\ Cardinality(dir) >= 2
        /\ AllRecorded(startFile[p])
        /\ Len(skipped[p]) = Cardinality(dir)

\* C2: within one run the files handed to psql are strictly increasing in
\* file-name order (one at a time: runLog is the sequence of the invocations).
C2_Ordered ==
    \A p \in Procs :
        \A i, j \in 1..Len(runLog[p]) :
            i < j => Less(Chars[runLog[p][i]], Chars[runLog[p][j]])

C2_Witness == \E p \in Procs : Len(runLog[p]) >= 3

\* C3: in a run over three pending migrations in which psql was run on the
\* second and failed, the run has stopped with an error right there: the third
\* was never attempted, the first is recorded, the second and third are not
\* (so that the next run takes up the second again).
C3_FailFast ==
    \A p \in Procs :
        ( /\ Len(list[p]) = 3
          /\ \A i \in 1..3 : IsFile(list[p][i]) /\ ~HasRecord(list[p][i], startFile[p])
          /\ FailedInRun(p, list[p][2]) ) =>
            /\ pc[p] = "exit1"
            /\ runLog[p] = <<list[p][1], list[p][2]>>
            /\ HasRecord(list[p][1], statusFile)
            /\ ~HasRecord(list[p][2], statusFile)
            /\ ~HasRecord(list[p][3], statusFile)

\* C4: a migration is marked only after its body succeeded: the script is in
\* mark_migration_applied only after a psql run without a failed statement,
\* and every recorded migration is wholly in the database.
C4_RecordOnlyOnSuccess ==
    /\ \A p \in Procs : pc[p] \in {"mark", "write"} => psqlResult[p] = "ok"
    /\ \A n \in FileNames : HasRecord(n, statusFile) => db[n] = "full"

\* C5: over all runs, killed and restarted ones included, psql goes through
\* the statements of a migration file at most once.
C5_AtMostOnce == \A n \in FileNames : execCount[n] <= 1

\* C6: the record set tells what ran, for both appliers: once the runner has
\* committed the migration and exited, the status file holds its record, and
\* the runner did not run the body of a migration that was recorded.
C6_SingleSourceOfTruth ==
    /\ rpc = "exit0" => HasRecord(UnreadMigration, statusFile)
    /\ rpc \in {"queried", "verify", "done", "exit0"} => ~rSawRecord

\* C7: a finished run over two migrations, the first recorded at its start
\* and the second not, has handed exactly the second to psql, has reported
\* the first as already applied, and leaves both recorded.
C7_SkipDetection ==
    \A p \in Procs :
        ( /\ pc[p] = "exec"
          /\ Len(list[p]) = 2
          /\ IsFile(list[p][1]) /\ IsFile(list[p][2])
          /\ HasRecord(list[p][1], startFile[p])
          /\ ~HasRecord(list[p][2], startFile[p]) ) =>
            /\ runLog[p] = <<list[p][2]>>
            /\ skipped[p] = <<list[p][1]>>
            /\ HasRecord(list[p][1], statusFile)
            /\ HasRecord(list[p][2], statusFile)

\* C8: without a status file no name counts as applied, and a finished run
\* that started without a status file over three migration files has handed
\* all three to psql in order, has created the file, and leaves exactly one
\* record per migration.
C8_Bootstrap ==
    /\ ~fileExists => \A n \in FileNames : ~is_migration_applied(n)
    /\ \A p \in Procs :
        ( /\ pc[p] = "exec"
          /\ startFile[p] = <<>>
          /\ Len(list[p]) = 3
          /\ \A i \in 1..3 : IsFile(list[p][i]) ) =>
            /\ runLog[p] = list[p]
            /\ fileExists
            /\ Len(RecordLines(statusFile)) = 3
            /\ \A i \in 1..3 : Len(RecordsOf(list[p][i], statusFile)) = 1

\* C9: with an existing migrations directory that holds no .sql file, a run
\* hands nothing to psql, reports nothing, neither creates nor changes the
\* status file, and does not fail: past the loop it starts the application.
C9_EmptyNoop ==
    \A p \in Procs :
        (InRun(p) /\ dirExists /\ dir = {}) =>
            /\ runLog[p] = <<>>
            /\ skipped[p] = <<>>
            /\ statusFile = startFile[p]
            /\ fileExists = (startFile[p] # <<>>)
            /\ pc[p] \in {"wait", "sleep", "dircheck", "loop", "exec"}

C9_Witness ==
    \E p \in Procs :
        /\ pc[p] = "exec"
        /\ dirExists /\ dir = {}
        /\ list[p] = <<GlobPattern>>
        /\ idx[p] = 2

InSeq(n, q) == \E i \in 1..Len(q) : q[i] = n

\* C11: the application is started only after every migration file found
\* was reported as already applied or was applied without failure in this
\* run, and a run in which the application of a migration failed has exited
\* with an error (and so never starts the application).
C11_ExitStartOrder ==
    \A p \in Procs :
        /\ pc[p] = "exec" =>
               \A i \in 1..Len(list[p]) :
                   IsFile(list[p][i]) =>
                       \/ InSeq(list[p][i], skipped[p])
                       \/ InSeq(list[p][i], runLog[p]) /\ ~FailedInRun(p, list[p][i])
        /\ \A n \in FileNames : FailedInRun(p, n) => pc[p] = "exit1"

C13_ReadyBeforeMigration ==
    \A p \in Procs :
        ( \/ runLog[p] # <<>>
          \/ pc[p] \in {"psql", "mark", "write"}
          \/ InRun(p) /\ statusFile # startFile[p] ) => ready[p]

C13_Witness ==
    \E p \in Procs : ready[p] /\ runLog[p] # <<>> /\ statusFile # startFile[p]

\* C14: the wait loop has no retry budget.  From the loop a run only goes on
\* probing, proceeds to the migration pass, or is stopped from outside: it
\* never exits and never starts the application; a probe proceeds exactly
\* when the server answers, however many probes have failed before; and
\* while the run is in the loop nothing is handed to psql or written.
C14_UnboundedRetry ==
    [][\A p \in Procs :
          /\ pc[p] \in {"wait", "sleep"} =>
                 pc'[p] \in {"wait", "sleep", "dircheck", "stopped"}
          /\ (pc[p] = "wait" /\ pc'[p] = "dircheck") => dbUp
          /\ (pc[p] = "wait" /\ pc'[p] = "sleep") => ~dbUp
          /\ (pc[p] \in {"wait", "sleep"} /\ pc'[p] \in {"wait", "sleep"}) =>
                 runLog'[p] = <<>> /\ UNCHANGED fileVars]_vars

\* A run proceeds after as many failed probes as the model counts.
C14_Witness ==
    \E p \in Procs : pc[p] = "dircheck" /\ failedProbes[p] = MaxProbes /\ ready[p]

\* C19: is_migration_applied succeeds for a name exactly when the status file
\* holds an applied record of that very name.
C19_ExactLookup ==
    \A n \in FileNames :
        is_migration_applied(n) <=> (fileExists /\ HasRecord(n, statusFile))

\* C16: the runner's exit status reflects the outcome: it exits 0 only after
\* its COMMIT went through, and when it exits 1 the body was not committed
\* and the connection holds no open or aborted transaction.
C16_ExitReflectsOutcome ==
    /\ rpc = "exit0" => rCommitted
    /\ rpc = "exit1" => ~rCommitted /\ tx \in {"none", "lost"}

Current(p) == list[p][idx[p]]

InCheckToWrite(p) == pc[p] \in {"psql", "mark", "write"}

\* C15: nothing locks the pass.  While one process is between its check of a
\* migration and the write of its record, another process whose loop stands
\* at the same file, still without a record, can begin to apply it too.
C15_NoMutualExclusion ==
    \A p \in Procs, q \in Procs :
        ( /\ p # q
          /\ InCheckToWrite(p)
          /\ pc[q] = "loop" /\ idx[q] <= Len(list[q])
          /\ Current(q) = Current(p)
          /\ IsFile(Current(q))
          /\ ~is_migration_applied(Current(q)) ) => ENABLED BeginApply(q)

\* Both processes found the same migration unapplied and both ran its
\* statements to the end.
C15_Witness ==
    \E n \in FileNames :
        /\ execCount[n] = 2
        /\ \A p \in Procs : InSeq(n, runLog[p]) /\ ~InSeq(n, skipped[p])
        /\ \A p \in Procs : pc[p] = "exec"

Finished(d) == d.pc \in {"exit0", "exit1", "returned"}

\* C17: stop, invoked with one or more instance directories present, has run
\* docker-compose down for every one of them when it ends, and ends with
\* exit status 0.
C17_StopAll ==
    (deploy.cmd = "stop" /\ Finished(deploy) /\ InstanceDirs(deploy) # {}) =>
        /\ deploy.pc = "exit0"
        /\ deploy.downed = InstanceDirs(deploy)

\* C18: clean ends with every instance directory taken down and deleted when
\* the operator's line is exactly DELETE ALL, and with nothing removed and
\* exit status 0 for any other line.
C18_CleanWhenConfirmed ==
    (deploy.cmd = "clean" /\ Finished(deploy)) =>
        IF deploy.stdin = "DELETE ALL"
        THEN /\ InstanceDirs(deploy) = {}
             /\ deploy.removed = {i \in 1..Len(InstanceNames) : deploy.start[i] = "dir"}
        ELSE /\ deploy.removed = {}
             /\ deploy.entries = deploy.start
             /\ deploy.pc = "exit0"

AllFailed(log) == \A i \in 1..Len(log) : ~log[i]

C20_Bounded ==
    /\ Len(deploy.npmLog) <= max_attempts
    /\ \A i \in 1..Len(deploy.npmLog) : deploy.npmLog[i] => i = Len(deploy.npmLog)
    /\ (deploy.npmLog # <<>> /\ deploy.npmLog[Len(deploy.npmLog)]) =>
           deploy.pc = "returned"
    /\ deploy.pc = "returned" =>
           deploy.npmLog # <<>> /\ deploy.npmLog[Len(deploy.npmLog)]
    /\ (Len(deploy.npmLog) = max_attempts /\ AllFailed(deploy.npmLog)) =>
           deploy.pc = "exit1"
    /\ (deploy.cmd = "deploy" /\ deploy.pc = "exit1" /\ deploy.packageJson) =>
           Len(deploy.npmLog) = max_attempts /\ AllFailed(deploy.npmLog)

\* C20: install_dependencies runs npm install at most max_attempts times; it
\* returns right after the first attempt that succeeds, with no attempt after
\* it; after the third failure in a row the script has exited with status 1;
\* and once begun it always comes to an end.
C20_BoundedInstall ==
    /\ []C20_Bounded
    /\ (deploy.pc = "install") ~> (deploy.pc \in {"returned", "exit1"})

\* The third attempt was made after two failures.
C20_Witness ==
    /\ deploy.cmd = "deploy"
    /\ Finished(deploy)
    /\ Len(deploy.npmLog) = max_attempts

====
